---- MODULE Spec2Model ----
(***************************************************************************)
(* PIVY stealth escrow (lib.rs: pay, withdraw, announce) and the yield     *)
(* vault (vault.rs: deposit, withdraw, get_balance, admin_patch_timestamp) *)
(* as one state machine over a shared token ledger.                        *)
(*                                                                         *)
(* u64, u128 and i64 values are exact: a natural number is the sequence of *)
(* its base-10^4 digits, least significant first, without leading zeros    *)
(* (zero is << >>); an i64 is a sign and a magnitude.                      *)
(***************************************************************************)
EXTENDS Integers, Sequences, FiniteSets, TLC

(* ------------------------- exact arithmetic --------------------------- *)

BASE == 10^4

RECURSIVE Norm(_)
Norm(a) ==
    IF a = <<>> THEN <<>>
    ELSE IF a[Len(a)] = 0 THEN Norm(SubSeq(a, 1, Len(a) - 1)) ELSE a

RECURSIVE Big(_)
Big(n) == IF n = 0 THEN <<>> ELSE <<n % BASE>> \o Big(n \div BASE)

RECURSIVE AddC(_, _, _)
AddC(a, b, c) ==
    IF a = <<>> /\ b = <<>> THEN (IF c = 0 THEN <<>> ELSE <<c>>)
    ELSE LET x == IF a = <<>> THEN 0 ELSE Head(a)
             y == IF b = <<>> THEN 0 ELSE Head(b)
             s == x + y + c
         IN  <<s % BASE>> \o AddC(IF a = <<>> THEN a ELSE Tail(a),
                                  IF b = <<>> THEN b ELSE Tail(b), s \div BASE)

BAdd(a, b) == AddC(a, b, 0)

RECURSIVE SubC(_, _, _)
SubC(a, b, c) ==
    IF a = <<>> THEN <<>>
    ELSE LET y == IF b = <<>> THEN 0 ELSE Head(b)
             d == Head(a) - y - c
         IN  <<d % BASE>> \o SubC(Tail(a), IF b = <<>> THEN b ELSE Tail(b),
                                  IF d < 0 THEN 1 ELSE 0)

\* a - b for a >= b
BSub(a, b) == Norm(SubC(a, b, 0))

RECURSIVE LtFrom(_, _, _)
LtFrom(a, b, i) ==
    IF i = 0 THEN FALSE
    ELSE IF a[i] # b[i] THEN a[i] < b[i] ELSE LtFrom(a, b, i - 1)

BLt(a, b) == IF Len(a) # Len(b) THEN Len(a) < Len(b) ELSE LtFrom(a, b, Len(a))

BLe(a, b) == ~BLt(b, a)

RECURSIVE MulC(_, _, _)
MulC(a, m, c) ==
    IF a = <<>> THEN Big(c)
    ELSE LET p == Head(a) * m + c IN <<p % BASE>> \o MulC(Tail(a), m, p \div BASE)

\* a * m for 0 <= m < BASE
BMulSmall(a, m) == IF m = 0 THEN <<>> ELSE MulC(a, m, 0)

RECURSIVE BMul(_, _)
BMul(a, b) ==
    IF a = <<>> \/ b = <<>> THEN <<>>
    ELSE LET rest == BMul(a, Tail(b))
         IN  BAdd(BMulSmall(a, Head(b)), IF rest = <<>> THEN <<>> ELSE <<0>> \o rest)

RECURSIVE DivC(_, _, _, _)
DivC(a, d, i, r) ==
    IF i = 0 THEN <<>>
    ELSE LET x == r * BASE + a[i]
         IN  DivC(a, d, i - 1, x % d) \o <<x \div d>>

\* floor(a / d) for 0 < d < BASE
BDivSmall(a, d) == Norm(DivC(a, d, Len(a), 0))

\* floor(a / BASE^k)
BShr(a, k) == IF Len(a) <= k THEN <<>> ELSE SubSeq(a, k + 1, Len(a))

\* the largest q in lo..hi with d * q <= r  (d * lo <= r is given)
RECURSIVE QDigit(_, _, _, _)
QDigit(r, d, lo, hi) ==
    IF lo = hi THEN lo
    ELSE LET mid == (lo + hi + 1) \div 2
         IN  IF BLe(BMulSmall(d, mid), r) THEN QDigit(r, d, mid, hi)
             ELSE QDigit(r, d, lo, mid - 1)

\* a mod d for d > 0, by long division from the most significant digit
RECURSIVE ModC(_, _, _, _)
ModC(a, d, i, r) ==
    IF i = 0 THEN r
    ELSE LET x == Norm(<<a[i]>> \o r)
             q == QDigit(x, d, 0, BASE - 1)
         IN  ModC(a, d, i - 1, BSub(x, BMulSmall(d, q)))

BMod(a, d) == IF BLt(a, d) THEN a ELSE ModC(a, d, Len(a), <<>>)

\* floor(a / d) for d > 0, by the same long division
RECURSIVE QuoC(_, _, _, _)
QuoC(a, d, i, r) ==
    IF i = 0 THEN <<>>
    ELSE LET x == Norm(<<a[i]>> \o r)
             q == QDigit(x, d, 0, BASE - 1)
         IN  QuoC(a, d, i - 1, BSub(x, BMulSmall(d, q))) \o <<q>>

BDiv(a, d) == Norm(QuoC(a, d, Len(a), <<>>))

TWO_32 == BMul(Big(65536), Big(65536))
TWO_63 == BMulSmall(BMul(TWO_32, Big(65536)), 32768)
TWO_64 == BMul(TWO_32, TWO_32)
TWO_128 == BMul(TWO_64, TWO_64)

U64_MAX == BSub(TWO_64, <<1>>)
U128_MAX == BSub(TWO_128, <<1>>)

\* i64 values: sign and magnitude, zero is never negative
I64(neg, mag) == [neg |-> neg /\ mag # <<>>, mag |-> mag]
I64_MAX == I64(FALSE, BSub(TWO_63, <<1>>))
I64_MIN == I64(TRUE, TWO_63)

\* the mathematical difference a - b of two signed values
ISub(a, b) ==
    IF a.neg # b.neg THEN I64(a.neg, BAdd(a.mag, b.mag))
    ELSE IF BLe(b.mag, a.mag) THEN I64(a.neg, BSub(a.mag, b.mag))
    ELSE I64(~a.neg, BSub(b.mag, a.mag))

IAddNat(a, n) == ISub(a, I64(TRUE, n))

InI64(x) == IF x.neg THEN BLe(x.mag, TWO_63) ELSE BLt(x.mag, TWO_63)

\* two's-complement wrap of a value in -(2^64) .. 2^64 to 64 bits
WrapI64(x) ==
    IF InI64(x) THEN x
    ELSE IF x.neg THEN I64(FALSE, BSub(TWO_64, x.mag))
    ELSE I64(TRUE, BSub(TWO_64, x.mag))

(* ------------------------------ bounds -------------------------------- *)

\* handler calls explored in one run
MaxCalls == 3
\* clock readings: GenesisTime + k * SECS_PER_YEAR for k in 0 .. MaxYears
MaxYears == 1
\* the non-zero pay amount; stealth withdraw amounts are 0 .. MaxPay + 1 and
\* the u64::MAX sentinel
MaxPay == 2
\* the clock reading of the initial state (unix seconds)
GenesisTime == 1700000000
\* tokens held by every funding account in the initial state
InitBalance == 50
\* the non-zero vault deposit amount (native units)
DepositUnit == 25

(* ------------------------- the ledger's world -------------------------- *)

Users == {"u1", "u2"}
Mints == {"m1", "m2"}
\* the address derived from seeds [b"auth"]
program_authority == "auth"
\* Pubkey::default(), the owner field of a zero-initialised Position
NoKey == "default"

\* token account addresses: the associated token account of (owner, mint),
\* a second, keypair-addressed account of the same owner and mint, and the
\* pooled vault account of a mint
Ata(owner, mint) == <<"ata", owner, mint>>
Aux(owner, mint) == <<"aux", owner, mint>>
Pool(mint) == <<"pool", program_authority, mint>>
TokenAddrs ==
    {Ata(o, m) : o \in Users, m \in Mints} \cup {Aux(o, m) : o \in Users, m \in Mints}
        \cup {Pool(m) : m \in Mints}

\* the position address derived from seeds [b"vpos", owner, mint]
PosAddr(owner, mint) == <<owner, mint>>
PosAddrs == {PosAddr(o, m) : o \in Users, m \in Mints}

Labels == {"label"}
EphKeys == {"eph"}

VARIABLES
    tokens,           \* token account address -> [owner, mint, amount, open]
    positions,        \* position address -> [init, owner, amount, last_ts]
    clock,            \* Clock::get()?.unix_timestamp
    log,              \* the events emitted by committed calls, oldest first
    transfers,        \* the token transfers of committed calls, oldest first
    last,             \* the latest call: its accounts, arguments and result
    calls,            \* handler calls made so far
    overflow_checks   \* whether the build traps integer overflow

vars == <<tokens, positions, clock, log, transfers, last, calls, overflow_checks>>

ZERO == <<>>
IsZero(a) == a = <<>>

(* ------------------ the ledger a handler reads and writes -------------- *)

Ledger == [tokens |-> tokens, positions |-> positions, log |-> log,
           transfers |-> transfers]

\* a handler's result: the error (or "Ok"), the ledger it leaves, the number
\* of token-program calls it issued, and the value it computed
Fail(led, err, issued) == [err |-> err, led |-> led, issued |-> issued, ret |-> ZERO]
Done(led, issued, ret) == [err |-> "Ok", led |-> led, issued |-> issued, ret |-> ret]

(* ---------------------- Token Transfer Service ------------------------- *)

\* transfer(from, to, authority, amount): fails if an account is missing, the
\* mints differ, the authority is not the source's owner, the balance is
\* insufficient or the credit overflows u64; a transfer of an account to
\* itself changes nothing
TokenTransfer(tk, from, to, authority, amount) ==
    LET ok == /\ tk[from].open /\ tk[to].open
              /\ tk[from].mint = tk[to].mint
              /\ tk[from].owner = authority
              /\ BLe(amount, tk[from].amount)
              /\ (from = to \/ BLe(BAdd(tk[to].amount, amount), U64_MAX))
    IN  [ok |-> ok,
         tokens |-> IF ok /\ from # to
                    THEN [tk EXCEPT ![from].amount = BSub(@, amount),
                                    ![to].amount = BAdd(@, amount)]
                    ELSE tk]

\* close_account(account, destination, authority): fails unless balance == 0
TokenClose(tk, account, authority) ==
    LET ok == /\ tk[account].open
              /\ tk[account].owner = authority
              /\ IsZero(tk[account].amount)
    IN  [ok |-> ok,
         tokens |-> IF ok THEN [tk EXCEPT ![account].open = FALSE] ELSE tk]

(* --------------------------- stealth escrow ---------------------------- *)

PaymentEvent(stealth_owner, payer, mint, amount, label, eph_pubkey, announce) ==
    [type |-> "PaymentEvent", stealth_owner |-> stealth_owner, payer |-> payer,
     mint |-> mint, amount |-> amount, label |-> label, eph_pubkey |-> eph_pubkey,
     announce |-> announce, destination |-> NoKey]

WithdrawEvent(stealth_owner, mint, amount, destination) ==
    [type |-> "WithdrawEvent", stealth_owner |-> stealth_owner, payer |-> NoKey,
     mint |-> mint, amount |-> amount, label |-> NoKey, eph_pubkey |-> NoKey,
     announce |-> FALSE, destination |-> destination]

\* the receiver account initialised anew on every pay
PayInitIfNeeded_always(tk, a) ==
    [tk EXCEPT ![a.stealth_ata] =
        [owner |-> a.stealth_owner, mint |-> a.mint, amount |-> ZERO,
         open |-> TRUE]]

\* init_if_needed on Pay.stealth_ata: the associated token account of
\* (stealth_owner, mint) is created empty when it does not exist
PayInitIfNeeded(tk, a) ==
    IF tk[a.stealth_ata].open THEN tk
    ELSE [tk EXCEPT ![a.stealth_ata] =
              [owner |-> a.stealth_owner, mint |-> a.mint, amount |-> ZERO,
               open |-> TRUE]]

\* any token account accepted as the receiver's account
PayAccounts_any_receiver(tk, a) ==
    /\ tk[a.payer_ata].open
    /\ tk[a.payer_ata].owner = a.payer
    /\ tk[a.payer_ata].mint = a.mint

\* the account constraints of Pay
PayAccounts(tk, a) ==
    /\ a.stealth_ata = Ata(a.stealth_owner, a.mint)
    /\ tk[a.payer_ata].open
    /\ tk[a.payer_ata].owner = a.payer
    /\ tk[a.payer_ata].mint = a.mint

\* the amount check left out
PayAmountValid_any(args) == TRUE

\* require!(args.amount > 0, ..)
PayAmountValid(args) == args.amount # ZERO

handle_pay(led, a, args) ==
    IF ~PayAmountValid(args) THEN Fail(led, "InvalidAmount", 0)
    ELSE LET t == TokenTransfer(led.tokens, a.payer_ata, a.stealth_ata, a.payer,
                                args.amount)
         IN  IF ~t.ok THEN Fail(led, "TokenError", 1)
             ELSE Done([led EXCEPT
                          !.tokens = t.tokens,
                          !.transfers = Append(@, [op |-> "pay", from |-> a.payer_ata,
                                                   to |-> a.stealth_ata,
                                                   amount |-> args.amount]),
                          !.log = Append(@, PaymentEvent(a.stealth_owner, a.payer,
                                            a.mint, args.amount, args.label,
                                            args.eph_pubkey, FALSE))],
                       1, args.amount)

\* the account constraints of Withdraw
WithdrawAccounts(tk, a) ==
    /\ tk[a.stealth_ata].open
    /\ tk[a.stealth_ata].owner = a.stealth_owner
    /\ tk[a.stealth_ata].mint = a.mint
    /\ tk[a.destination_ata].open

\* the SameAccount check left out
AccountsDiffer_unchecked(a) == TRUE

\* stealth_ata.key() != destination_ata.key()
AccountsDiffer(a) == a.stealth_ata # a.destination_ata

\* the sentinel taken as an amount
SweepAmount_literal(args, balance) == args.amount

\* if args.amount == u64::MAX { balance } else { args.amount }
SweepAmount(args, balance) == IF args.amount = U64_MAX THEN balance ELSE args.amount

\* only amount > 0 is required
AmountInBalance_nonzero_only(amount, balance) == amount # ZERO

\* amount > 0 && amount <= balance
AmountInBalance(amount, balance) == amount # ZERO /\ BLe(amount, balance)

\* the destination owner check left out
DestinationOwned_any(tk, a) == TRUE

\* destination_ata.owner == stealth_owner.key()
DestinationOwned(tk, a) == tk[a.destination_ata].owner = a.stealth_owner

\* the account never closed
EmptyAfterReload_never(reloaded) == FALSE

\* the close attempted whatever the balance
EmptyAfterReload_always(reloaded) == TRUE

\* if stealth_ata.amount == 0, after the reload
EmptyAfterReload(reloaded) == reloaded = ZERO

handle_withdraw(led, a, args) ==
    IF ~AccountsDiffer(a) THEN Fail(led, "SameAccount", 0)
    ELSE
    LET balance == led.tokens[a.stealth_ata].amount
        amount == SweepAmount(args, balance)
    IN
    IF ~AmountInBalance(amount, balance) THEN Fail(led, "InvalidAmount", 0)
    ELSE IF ~DestinationOwned(led.tokens, a)
    THEN Fail(led, "DestinationOwnerMismatch", 0)
    ELSE
    LET t == TokenTransfer(led.tokens, a.stealth_ata, a.destination_ata,
                           a.stealth_owner, amount)
    IN
    IF ~t.ok THEN Fail(led, "TokenError", 1)
    ELSE
    LET \* stealth_ata.reload(): the balance is read again after the transfer
        reloaded == t.tokens[a.stealth_ata].amount
        c == IF EmptyAfterReload(reloaded)
             THEN TokenClose(t.tokens, a.stealth_ata, a.stealth_owner)
             ELSE [ok |-> TRUE, tokens |-> t.tokens]
        issued == IF EmptyAfterReload(reloaded) THEN 2 ELSE 1
    IN
    IF ~c.ok THEN Fail([led EXCEPT !.tokens = t.tokens], "TokenError", issued)
    ELSE Done([led EXCEPT
                 !.tokens = c.tokens,
                 !.transfers = Append(@, [op |-> "withdraw", from |-> a.stealth_ata,
                                          to |-> a.destination_ata,
                                          amount |-> amount]),
                 !.log = Append(@, WithdrawEvent(a.stealth_owner, a.mint, amount,
                                                 a.destination_ata))],
              issued, amount)

\* the announcement emitted as a payment
handle_announce_as_payment(led, a, args) ==
    IF ~(args.amount # ZERO) THEN Fail(led, "InvalidAmount", 0)
    ELSE Done([led EXCEPT
                 !.log = Append(@, PaymentEvent(a.stealth_owner, a.payer, a.mint,
                                   args.amount, args.label, args.eph_pubkey,
                                   FALSE))],
              0, ZERO)

handle_announce(led, a, args) ==
    IF ~(args.amount # ZERO) THEN Fail(led, "InvalidAmount", 0)
    ELSE Done([led EXCEPT
                 !.log = Append(@, PaymentEvent(a.stealth_owner, a.payer, a.mint,
                                   args.amount, args.label, args.eph_pubkey,
                                   TRUE))],
              0, ZERO)

(* ------------------------------ yield vault ---------------------------- *)

RATE_NUM == 4
RATE_DEN == 100
SECS_PER_YEAR == 31536000
\* 1_000_000_000_000 = BASE^3
DECIMALS_SHIFT == <<0, 0, 0, 1>>

\* the result of u128 / i64 arithmetic: a value, or the panic of a build that
\* traps overflow
Value(v) == [panic |-> FALSE, val |-> v]
Panicked == [panic |-> TRUE, val |-> ZERO]

\* u128::saturating_mul
SaturatingMul(a, b) ==
    LET p == BMul(a, b) IN IF BLe(p, U128_MAX) THEN p ELSE U128_MAX

\* the division by RATE_DEN left out
YieldDiv_no_rate_den(x) ==
    BDivSmall(BDivSmall(x, 8000), SECS_PER_YEAR \div 8000)

\* x / (RATE_DEN as u128 * SECS_PER_YEAR as u128), dividing by the factors
\* 100, 8000 and 3942 in turn: floor(floor(x / a) / b) = floor(x / (a * b))
YieldDiv(x) ==
    BDivSmall(BDivSmall(BDivSmall(x, RATE_DEN), 8000), SECS_PER_YEAR \div 8000)

\* u128 `+`: traps on overflow where the build checks it, wraps otherwise
AddU128(a, b) ==
    LET sum == BAdd(a, b)
    IN  IF BLe(sum, U128_MAX) THEN Value(sum)
        ELSE IF overflow_checks THEN Panicked
        ELSE Value(BSub(sum, TWO_128))

accrued(amount, start, now) ==
    LET diff == ISub(now, start)
    IN  IF ~InI64(diff) /\ overflow_checks THEN Panicked
        ELSE LET wrapped == WrapI64(diff)
                 dt == IF wrapped.neg THEN ZERO ELSE wrapped.mag
                 yield_part ==
                     YieldDiv(SaturatingMul(SaturatingMul(amount, Big(RATE_NUM)), dt))
             IN  AddU128(amount, yield_part)

\* the deposit taken at the internal scale as it stands
DepositedScaled_unscaled(amount) == amount

\* (amount as u128) * DECIMALS_SHIFT: below 2^64 * 10^12, so never above u128
DepositedScaled(amount) == BMul(amount, DECIMALS_SHIFT)

\* the total paid out without the downscale
TransferAmount_unscaled(total) == BMod(total, TWO_64)

\* (total / 10u128.pow(12)) as u64: the cast keeps the low 64 bits
TransferAmount(total) == BMod(BShr(total, 3), TWO_64)

\* a Position account as init_if_needed allocates it
NewPosition == [init |-> TRUE, owner |-> NoKey, amount |-> ZERO,
                last_ts |-> I64(FALSE, ZERO)]

DepositInitIfNeeded(ps, a) ==
    IF ps[a.position].init THEN ps ELSE [ps EXCEPT ![a.position] = NewPosition]

\* the account constraints of Deposit
DepositAccounts(tk, a) ==
    /\ a.position = PosAddr(a.owner, a.mint)
    /\ tk[a.src].open /\ tk[a.src].owner = a.owner /\ tk[a.src].mint = a.mint
    /\ tk[a.vault].open /\ tk[a.vault].mint = a.mint
    /\ tk[a.vault].owner = program_authority

\* the amount checked after the transfer
deposit_late_check(led, a, amount, unix_timestamp) ==
    LET pos == led.positions[a.position]
        t == TokenTransfer(led.tokens, a.src, a.vault, a.owner, amount)
    IN
    IF ~t.ok THEN Fail(led, "TokenError", 1)
    ELSE IF ~(amount # ZERO)
    THEN Fail([led EXCEPT !.tokens = t.tokens], "InvalidAmount", 1)
    ELSE
    LET cur == accrued(pos.amount, pos.last_ts, unix_timestamp)
        deposited_scaled == DepositedScaled(amount)
        new_amount == IF cur.panic THEN Panicked ELSE AddU128(cur.val, deposited_scaled)
    IN
    IF new_amount.panic THEN Fail([led EXCEPT !.tokens = t.tokens], "Panic", 1)
    ELSE Done([led EXCEPT
                 !.tokens = t.tokens,
                 !.transfers = Append(@, [op |-> "deposit", from |-> a.src,
                                          to |-> a.vault, amount |-> amount]),
                 !.positions[a.position] =
                     [init |-> TRUE, owner |-> a.owner, amount |-> new_amount.val,
                      last_ts |-> unix_timestamp]],
              1, new_amount.val)

deposit(led, a, amount, unix_timestamp) ==
    IF ~(amount # ZERO) THEN Fail(led, "InvalidAmount", 0)
    ELSE
    LET pos == led.positions[a.position]
        t == TokenTransfer(led.tokens, a.src, a.vault, a.owner, amount)
    IN
    IF ~t.ok THEN Fail(led, "TokenError", 1)
    ELSE
    LET cur == accrued(pos.amount, pos.last_ts, unix_timestamp)
        deposited_scaled == DepositedScaled(amount)
        new_amount == IF cur.panic THEN Panicked ELSE AddU128(cur.val, deposited_scaled)
    IN
    IF new_amount.panic THEN Fail([led EXCEPT !.tokens = t.tokens], "Panic", 1)
    ELSE Done([led EXCEPT
                 !.tokens = t.tokens,
                 !.transfers = Append(@, [op |-> "deposit", from |-> a.src,
                                          to |-> a.vault, amount |-> amount]),
                 !.positions[a.position] =
                     [init |-> TRUE, owner |-> a.owner, amount |-> new_amount.val,
                      last_ts |-> unix_timestamp]],
              1, new_amount.val)

\* the account constraints of Withdraw (shared by withdraw and get_balance)
VaultWithdrawAccounts(tk, ps, a) ==
    /\ ps[a.position].init /\ ps[a.position].owner = a.owner
    /\ tk[a.dst].open /\ tk[a.dst].owner = a.owner /\ tk[a.dst].mint = a.mint
    /\ tk[a.vault].open /\ tk[a.vault].mint = a.mint
    /\ tk[a.vault].owner = program_authority

withdraw(led, a, unix_timestamp) ==
    LET pos == led.positions[a.position]
        total == accrued(pos.amount, pos.last_ts, unix_timestamp)
    IN
    IF total.panic THEN Fail(led, "Panic", 0)
    ELSE IF ~(total.val # ZERO) THEN Fail(led, "InvalidAmount", 0)
    ELSE
    LET transfer_amount == TransferAmount(total.val)
        t == TokenTransfer(led.tokens, a.vault, a.dst, program_authority,
                           transfer_amount)
    IN
    IF ~t.ok THEN Fail(led, "TokenError", 1)
    ELSE Done([led EXCEPT
                 !.tokens = t.tokens,
                 !.transfers = Append(@, [op |-> "vault_withdraw", from |-> a.vault,
                                          to |-> a.dst,
                                          amount |-> transfer_amount]),
                 !.positions[a.position].amount = ZERO,
                 !.positions[a.position].last_ts = unix_timestamp],
              1, transfer_amount)

get_balance(led, a, unix_timestamp) ==
    LET pos == led.positions[a.position]
        bal == accrued(pos.amount, pos.last_ts, unix_timestamp)
    IN  IF bal.panic THEN Fail(led, "Panic", 0) ELSE Done(led, 0, bal.val)

\* the account constraints of AdminPatch
AdminPatchAccounts(ps, a) ==
    ps[a.position].init /\ ps[a.position].owner = a.owner

\* the patch restarting the position as well
admin_patch_timestamp_restart(led, a, new_ts) ==
    Done([led EXCEPT !.positions[a.position].last_ts = new_ts,
                     !.positions[a.position].amount = ZERO], 0, ZERO)

admin_patch_timestamp(led, a, new_ts) ==
    Done([led EXCEPT !.positions[a.position].last_ts = new_ts], 0, ZERO)

(* ------------------------- calls and commitment ------------------------ *)

NoCall ==
    [op |-> "none", err |-> "Ok", signer |-> NoKey, owner |-> NoKey,
     src |-> NoKey, dst |-> NoKey, mint |-> NoKey, pos |-> NoKey,
     amount |-> ZERO, ts |-> I64(FALSE, ZERO), balance |-> ZERO,
     issued |-> 0, ret |-> ZERO, now |-> I64(FALSE, ZERO)]

\* a further call is explored while the call budget lasts; a failed call
\* commits nothing, so the run is not continued past it
CanCall == calls < MaxCalls /\ last.err = "Ok"

\* the entrypoint returns the handler's Result to the runtime, which commits
\* the ledger the handler left on Ok and discards it on any error
Commit(out, call) ==
    /\ tokens' = IF out.err = "Ok" THEN out.led.tokens ELSE tokens
    /\ positions' = IF out.err = "Ok" THEN out.led.positions ELSE positions
    /\ log' = IF out.err = "Ok" THEN out.led.log ELSE log
    /\ transfers' = IF out.err = "Ok" THEN out.led.transfers ELSE transfers
    /\ last' = [call EXCEPT !.err = out.err, !.issued = out.issued, !.ret = out.ret]
    /\ calls' = calls + 1
    /\ UNCHANGED <<clock, overflow_checks>>

PayAmounts == {ZERO, Big(MaxPay)}
WithdrawAmounts == {Big(n) : n \in 0 .. MaxPay + 1} \cup {U64_MAX}
AnnounceAccounts ==
    {[stealth_owner |-> "u1", payer |-> "u2", mint |-> "m1"],
     [stealth_owner |-> "u2", payer |-> "u2", mint |-> "m2"]}
DepositAmounts == {ZERO, Big(DepositUnit), U64_MAX}
PatchTimes == {I64_MIN, I64(FALSE, ZERO), I64_MAX}

Pay ==
    /\ CanCall
    /\ \E stealth_owner \in Users, payer \in Users, mint \in Mints,
          stealth_ata \in TokenAddrs, payer_ata \in TokenAddrs,
          amount \in PayAmounts, label \in Labels, eph_pubkey \in EphKeys :
           LET a == [stealth_owner |-> stealth_owner, stealth_ata |-> stealth_ata,
                     payer |-> payer, payer_ata |-> payer_ata, mint |-> mint]
               args == [amount |-> amount, label |-> label, eph_pubkey |-> eph_pubkey]
               tk == PayInitIfNeeded(tokens, a)
           IN  /\ PayAccounts(tk, a)
               /\ Commit(handle_pay([Ledger EXCEPT !.tokens = tk], a, args),
                         [NoCall EXCEPT !.op = "pay", !.signer = payer,
                                        !.owner = stealth_owner, !.src = payer_ata,
                                        !.dst = stealth_ata, !.mint = mint,
                                        !.amount = amount,
                                        !.balance = tokens[payer_ata].amount])

Withdraw ==
    /\ CanCall
    /\ \E stealth_owner \in Users, mint \in Mints,
          stealth_ata \in TokenAddrs, destination_ata \in TokenAddrs,
          amount \in WithdrawAmounts :
           LET a == [stealth_owner |-> stealth_owner, stealth_ata |-> stealth_ata,
                     destination_ata |-> destination_ata, mint |-> mint]
           IN  /\ WithdrawAccounts(tokens, a)
               /\ Commit(handle_withdraw(Ledger, a, [amount |-> amount]),
                         [NoCall EXCEPT !.op = "withdraw", !.signer = stealth_owner,
                                        !.owner = stealth_owner, !.src = stealth_ata,
                                        !.dst = destination_ata, !.mint = mint,
                                        !.amount = amount,
                                        !.balance = tokens[stealth_ata].amount])

Announce ==
    /\ CanCall
    /\ \E a \in AnnounceAccounts, amount \in PayAmounts,
          label \in Labels, eph_pubkey \in EphKeys :
           LET args == [amount |-> amount, label |-> label, eph_pubkey |-> eph_pubkey]
           IN  /\ Commit(handle_announce(Ledger, a, args),
                         [NoCall EXCEPT !.op = "announce", !.signer = a.payer,
                                        !.owner = a.stealth_owner, !.mint = a.mint,
                                        !.amount = amount])

VaultDeposit ==
    /\ CanCall
    /\ \E owner \in Users, mint \in Mints, position \in PosAddrs,
          src \in TokenAddrs, vault \in TokenAddrs, amount \in DepositAmounts :
           LET a == [position |-> position, owner |-> owner, src |-> src,
                     vault |-> vault, mint |-> mint]
               ps == DepositInitIfNeeded(positions, a)
           IN  /\ DepositAccounts(tokens, a)
               /\ Commit(deposit([Ledger EXCEPT !.positions = ps], a, amount, clock),
                         [NoCall EXCEPT !.op = "deposit", !.now = clock,
                                        !.signer = owner,
                                        !.owner = owner, !.src = src, !.dst = vault,
                                        !.mint = mint, !.pos = position,
                                        !.amount = amount,
                                        !.balance = positions[position].amount])

VaultWithdraw ==
    /\ CanCall
    /\ \E owner \in Users, mint \in Mints, position \in PosAddrs,
          dst \in TokenAddrs, vault \in TokenAddrs :
           LET a == [position |-> position, owner |-> owner, dst |-> dst,
                     vault |-> vault, mint |-> mint]
           IN  /\ VaultWithdrawAccounts(tokens, positions, a)
               /\ Commit(withdraw(Ledger, a, clock),
                         [NoCall EXCEPT !.op = "vault_withdraw", !.now = clock,
                                        !.signer = owner,
                                        !.owner = owner, !.src = vault, !.dst = dst,
                                        !.mint = mint, !.pos = position,
                                        !.balance = positions[position].amount])

GetBalance ==
    /\ CanCall
    /\ \E owner \in Users, mint \in Mints, position \in PosAddrs,
          dst \in TokenAddrs, vault \in TokenAddrs :
           LET a == [position |-> position, owner |-> owner, dst |-> dst,
                     vault |-> vault, mint |-> mint]
           IN  /\ VaultWithdrawAccounts(tokens, positions, a)
               /\ Commit(get_balance(Ledger, a, clock),
                         [NoCall EXCEPT !.op = "get_balance", !.now = clock,
                                        !.signer = owner,
                                        !.owner = owner, !.src = vault, !.dst = dst,
                                        !.mint = mint, !.pos = position,
                                        !.balance = positions[position].amount])

AdminPatchTimestamp ==
    /\ CanCall
    /\ \E owner \in Users, position \in PosAddrs, new_ts \in PatchTimes :
           LET a == [position |-> position, owner |-> owner]
           IN  /\ AdminPatchAccounts(positions, a)
               /\ Commit(admin_patch_timestamp(Ledger, a, new_ts),
                         [NoCall EXCEPT !.op = "admin_patch_timestamp",
                                        !.signer = owner, !.owner = owner,
                                        !.pos = position, !.ts = new_ts,
                                        !.balance = positions[position].amount])

\* the clock moves on by a year between calls
LastReading == BAdd(Big(GenesisTime), BMul(Big(MaxYears), Big(SECS_PER_YEAR)))

Tick ==
    /\ BLt(clock.mag, LastReading)
    /\ clock' = IAddNat(clock, Big(SECS_PER_YEAR))
    /\ UNCHANGED <<tokens, positions, log, transfers, last, calls, overflow_checks>>

\* the state before the first call: the token accounts in `opened` exist, those
\* in `funded` hold InitBalance tokens, those in `supply` hold the whole supply
\* of their mint (u64::MAX, the most a mint can issue), no position has been
\* created yet
Genesis(opened, funded, supply) ==
    /\ tokens = [t \in TokenAddrs |->
                    [owner |-> t[2], mint |-> t[3],
                     amount |-> IF t \in funded THEN Big(InitBalance)
                                ELSE IF t \in supply THEN U64_MAX ELSE ZERO,
                     open |-> t \in opened]]
    /\ positions = [p \in PosAddrs |->
                       [init |-> FALSE, owner |-> NoKey, amount |-> ZERO,
                        last_ts |-> I64(FALSE, ZERO)]]
    /\ clock = I64(FALSE, Big(GenesisTime))
    /\ log = <<>>
    /\ transfers = <<>>
    /\ last = NoCall
    /\ calls = 0

Init ==
    /\ Genesis({Aux("u1", "m1"), Aux("u2", "m1"), Aux("u1", "m2"), Pool("m1")},
               {Aux("u1", "m1")}, {})
    /\ overflow_checks \in BOOLEAN

Next ==
    \/ Pay
    \/ Withdraw
    \/ Announce
    \/ VaultDeposit
    \/ VaultWithdraw
    \/ GetBalance
    \/ AdminPatchTimestamp
    \/ Tick

Spec == Init /\ [][Next]_vars

NextStealth ==
    \/ Pay
    \/ Withdraw
    \/ Announce

InitStealth ==
    /\ Genesis({Aux("u1", "m1"), Aux("u2", "m1"), Aux("u1", "m2")},
               {Aux("u1", "m1")}, {})
    /\ overflow_checks = TRUE

SpecStealth == InitStealth /\ [][NextStealth]_vars

NextVault ==
    \/ VaultDeposit
    \/ VaultWithdraw
    \/ GetBalance
    \/ AdminPatchTimestamp
    \/ Tick

InitVault ==
    /\ Genesis({Aux("u1", "m1"), Aux("u2", "m1"), Aux("u1", "m2"),
                Pool("m1"), Pool("m2")},
               {Aux("u1", "m1"), Aux("u2", "m1")}, {Aux("u1", "m2")})
    /\ overflow_checks \in BOOLEAN

SpecVault == InitVault /\ [][NextVault]_vars


(* ------------------- accrued as a function of its inputs --------------- *)

AccruedAmounts ==
    {ZERO, <<1>>, BMul(Big(1000000), DECIMALS_SHIFT), BMul(U64_MAX, DECIMALS_SHIFT),
     BDivSmall(TWO_128, 2), U128_MAX}
AccruedTimes ==
    {I64_MIN, I64(TRUE, <<1>>), I64(FALSE, ZERO), I64_MAX}
        \cup {I64(FALSE, BAdd(Big(GenesisTime), BMul(Big(k), Big(SECS_PER_YEAR)))) :
                k \in 0 .. MaxYears}

\* one evaluation of accrued(amount, start, now): `last` holds amount, start
\* (ts) and the result, `clock` holds now
ApplyAccrued ==
    \E amount \in AccruedAmounts, start \in AccruedTimes, t \in AccruedTimes :
        LET r == accrued(amount, start, t)
        IN  /\ calls = 0
            /\ calls' = 1
            /\ clock' = t
            /\ last' = [NoCall EXCEPT !.op = "accrued", !.amount = amount,
                                      !.ts = start, !.ret = r.val,
                                      !.err = IF r.panic THEN "Panic" ELSE "Ok"]
            /\ UNCHANGED <<tokens, positions, log, transfers, overflow_checks>>

NextAccrued ==
    \/ ApplyAccrued

SpecAccrued == Init /\ [][NextAccrued]_vars


(* ============================ properties =============================== *)

\* the latest call was the stealth withdraw
LastWithdraw == last.op = "withdraw"

\* the amount a stealth withdraw request resolves to against the balance the
\* receiver account held before the call
Resolved == IF last.amount = U64_MAX THEN last.balance ELSE last.amount

\* C1 as stated: a stealth withdraw whose destination is not owned by the
\* signer fails with DestinationOwnerMismatch for every non-zero requested
\* amount and every balance, source and destination being different accounts.
C1_AlwaysOwnerMismatch ==
    (LastWithdraw /\ last.src # last.dst /\ last.amount # ZERO
        /\ tokens[last.dst].owner # last.signer)
    => last.err = "DestinationOwnerMismatch"

\* C1 amended: such a withdraw always fails; with DestinationOwnerMismatch when
\* the requested amount resolves to a non-zero amount within the balance, and
\* with InvalidAmount when it resolves to zero or exceeds the balance.
C1_OwnerMismatch ==
    (LastWithdraw /\ last.src # last.dst /\ last.amount # ZERO
        /\ tokens[last.dst].owner # last.signer)
    => last.err = IF Resolved # ZERO /\ BLe(Resolved, last.balance)
                  THEN "DestinationOwnerMismatch" ELSE "InvalidAmount"

\* a sweep towards a foreign account, with tokens to sweep, is refused
C1_Witness ==
    /\ LastWithdraw /\ last.amount = U64_MAX /\ last.balance # ZERO
    /\ tokens[last.dst].owner # last.signer
    /\ last.err = "DestinationOwnerMismatch"

\* C3: every successful stealth withdraw debits an account owned by the signer
\* and credits an account owned by the signer, whichever destination address
\* the caller supplied.
C3_SweptToOwner ==
    (LastWithdraw /\ last.err = "Ok")
    => LET x == transfers[Len(transfers)]
       IN  /\ x.op = "withdraw" /\ x.from = last.src /\ x.to = last.dst
           /\ tokens[x.to].owner = last.signer
           /\ tokens[x.from].owner = last.signer

\* a successful withdraw that moved tokens into the destination
C3_Witness ==
    /\ LastWithdraw /\ last.err = "Ok" /\ last.ret # ZERO
    /\ BLe(last.ret, tokens[last.dst].amount)

\* C7: a stealth withdraw whose source and destination are the same address
\* fails with SameAccount for every amount and balance, before the amount and
\* the destination owner are looked at.
C7_SameAccount ==
    (LastWithdraw /\ last.src = last.dst) => last.err = "SameAccount"

\* the same account given twice with an amount that InvalidAmount would refuse
C7_Witness ==
    /\ LastWithdraw /\ last.src = last.dst /\ last.err = "SameAccount"
    /\ (last.amount = ZERO \/ BLt(last.balance, last.amount))


\* a step that is a call of the named handler
CallOf(op) == calls' # calls /\ last'.op = op

\* the token accounts other than a and b are left as they were
OthersUntouched(a, b) == \A t \in TokenAddrs \ {a, b} : tokens'[t] = tokens[t]

\* the event a call appended to the log
Emitted == log'[Len(log')]
OneEmitted == Len(log') = Len(log) + 1 /\ SubSeq(log', 1, Len(log)) = log

\* the sweep of C4: from a non-empty receiver account the call moves exactly
\* the balance the account held before the call and reports that amount
SweepsBalance ==
    LET src == last'.src
        dst == last'.dst
        pre == tokens[src].amount
    IN  /\ (last'.err = "Ok" =>
              /\ pre # ZERO
              /\ tokens'[src].amount = ZERO
              /\ tokens'[dst].amount = BAdd(tokens[dst].amount, pre)
              /\ OthersUntouched(src, dst)
              /\ OneEmitted
              /\ Emitted.type = "WithdrawEvent" /\ Emitted.amount = pre)
        /\ ((pre # ZERO /\ src # dst /\ tokens[dst].owner = last'.signer
                /\ tokens[dst].mint = tokens[src].mint) => last'.err = "Ok")

\* the refusal of C4: InvalidAmount, and nothing moved
RefusedUnmoved ==
    /\ last'.err = "InvalidAmount"
    /\ tokens' = tokens /\ log' = log /\ transfers' = transfers

\* C4 as stated: withdraw(u64::MAX) transfers exactly the pre-call balance and
\* reports it in the WithdrawEvent; with a zero pre-call balance it fails with
\* InvalidAmount and moves nothing.
C4_SweepAsStated ==
    [][(CallOf("withdraw") /\ last'.amount = U64_MAX)
        => /\ SweepsBalance
           /\ (tokens[last'.src].amount = ZERO => RefusedUnmoved)]_vars

\* C4 amended: the same, the refusal with InvalidAmount being that of a call
\* whose source and destination accounts differ (the same account given twice
\* is refused with SameAccount first).
C4_Sweep ==
    [][(CallOf("withdraw") /\ last'.amount = U64_MAX)
        => /\ SweepsBalance
           /\ ((tokens[last'.src].amount = ZERO /\ last'.src # last'.dst)
                  => RefusedUnmoved)]_vars

\* a successful sweep of a non-empty account
C4_Witness ==
    /\ LastWithdraw /\ last.amount = U64_MAX /\ last.err = "Ok"
    /\ last.ret = last.balance /\ last.balance # ZERO
    /\ log[Len(log)].amount = last.balance

\* a successful pay, then a successful withdraw of the same amount from the
\* account the pay credited
PayThenWithdraw ==
    /\ last.op = "pay" /\ last.err = "Ok"
    /\ CallOf("withdraw") /\ last'.err = "Ok"
    /\ last'.amount = last.amount /\ last'.src = last.dst

ReceiverEmptied == tokens'[last'.src].amount = ZERO /\ ~tokens'[last'.src].open

\* C5 as stated: for every amount > 0, a successful pay(amount) followed by a
\* successful withdraw(amount) from the receiver's token account leaves that
\* account at zero balance and closed.
C5_PayWithdrawAsStated == [][PayThenWithdraw => ReceiverEmptied]_vars

\* C5 amended: it does so when the receiver account holds exactly `amount`
\* after the pay, as it does when it was absent or empty before the pay.
C5_PayWithdraw ==
    [][(PayThenWithdraw /\ tokens[last.dst].amount = last.amount)
        => ReceiverEmptied]_vars

\* a pay into a fresh receiver account and the withdraw that closed it
C5_Witness ==
    /\ LastWithdraw /\ last.err = "Ok" /\ ~tokens[last.src].open
    /\ Len(log) = 2
    /\ log[1].type = "PaymentEvent" /\ ~log[1].announce
    /\ log[1].amount = last.amount
    /\ last.src = Ata(log[1].stealth_owner, log[1].mint)

\* the sum of the amounts of the committed transfers of handler `op` whose
\* `side` ("from" or "to") is the account `addr`, among the first i transfers;
\* a transfer from an account to itself moves nothing and is not counted
RECURSIVE MovedUpTo(_, _, _, _)
MovedUpTo(i, op, side, addr) ==
    IF i = 0 THEN ZERO
    ELSE LET x == transfers[i]
             rest == MovedUpTo(i - 1, op, side, addr)
         IN  IF x.op = op /\ x[side] = addr /\ x.from # x.to
             THEN BAdd(rest, x.amount) ELSE rest

Moved(op, side, addr) == MovedUpTo(Len(transfers), op, side, addr)

ReceiverAccounts == {Ata(o, m) : o \in Users, m \in Mints}

\* every pay credited the one associated account of its stealth_owner and mint
OneReceiverAccount ==
    \A i \in 1 .. Len(transfers) :
        transfers[i].op = "pay" => transfers[i].to \in ReceiverAccounts

\* C6 as stated: one receiver account per (stealth_owner, mint), whose balance
\* is the sum of the pay amounts to it minus the sum of the amounts withdrawn
\* from it.
C6_BalanceAsStated ==
    /\ OneReceiverAccount
    /\ \A r \in ReceiverAccounts :
          BAdd(tokens[r].amount, Moved("withdraw", "from", r)) = Moved("pay", "to", r)

\* C6 amended: the balance is the sum of the amounts paid and withdrawn into
\* the account minus the sum of the amounts withdrawn and paid out of it.
C6_Balance ==
    /\ OneReceiverAccount
    /\ \A r \in ReceiverAccounts :
          BAdd(BAdd(tokens[r].amount, Moved("withdraw", "from", r)),
               Moved("pay", "from", r))
            = BAdd(Moved("pay", "to", r), Moved("withdraw", "to", r))

\* two pays accumulated in one receiver account
C6_Witness ==
    /\ Len(transfers) = 2
    /\ transfers[1].op = "pay" /\ transfers[2].op = "pay"
    /\ transfers[1].to = transfers[2].to /\ transfers[1].from # transfers[1].to
    /\ tokens[transfers[1].to].amount = BAdd(transfers[1].amount, transfers[2].amount)

\* pay(0): InvalidAmount, nothing committed
PayZeroRefused ==
    last'.amount = ZERO
    => /\ last'.err = "InvalidAmount"
       /\ tokens' = tokens /\ log' = log /\ transfers' = transfers

\* a successful pay emits one PaymentEvent with its amount and announce = false
PayEmits ==
    /\ OneEmitted
    /\ Emitted.type = "PaymentEvent" /\ ~Emitted.announce
    /\ Emitted.amount = last'.amount /\ Emitted.stealth_owner = last'.owner
    /\ Emitted.payer = last'.signer /\ Emitted.mint = last'.mint

\* the token accounts after `amount` has left the payer's account and entered
\* the receiver's, the receiver's account created empty when it was absent
AfterPayment ==
    LET src == last'.src
        dst == last'.dst
        created == [tokens EXCEPT ![dst] =
                       IF @.open THEN @
                       ELSE [owner |-> last'.owner, mint |-> last'.mint,
                             amount |-> ZERO, open |-> TRUE]]
        debited == [created EXCEPT ![src].amount = BSub(@, last'.amount)]
    IN  [debited EXCEPT ![dst].amount = BAdd(@, last'.amount)]

\* C8: pay(0) fails with InvalidAmount and commits nothing (no account
\* created, no event, no balance changed); a pay of an amount > 0 that the
\* payer's account covers succeeds, moves exactly that amount from the payer's
\* token account to the receiver's and emits one PaymentEvent with that amount
\* and announce = false.
C8_Pay ==
    [][CallOf("pay")
        => /\ PayZeroRefused
           /\ ((last'.amount # ZERO /\ BLe(last'.amount, tokens[last'.src].amount))
                 => last'.err = "Ok")
           /\ ((last'.amount # ZERO /\ last'.err = "Ok")
                 => PayEmits /\ tokens' = AfterPayment)]_vars

\* a pay that created the receiver account and moved the amount into it,
\* then a pay(0) that was refused
C8_Witness ==
    /\ last.op = "pay" /\ last.err = "InvalidAmount" /\ last.amount = ZERO
    /\ Len(log) = 1 /\ log[1].type = "PaymentEvent" /\ log[1].amount # ZERO
    /\ Len(transfers) = 1 /\ transfers[1].from # transfers[1].to
    /\ tokens[transfers[1].to].amount = log[1].amount
    /\ ~tokens[last.dst].open


\* C9: every handler is all-or-nothing: when a call fails (InvalidAmount,
\* DestinationOwnerMismatch, SameAccount, a refused transfer or an arithmetic
\* failure) no token balance, position field, account existence or log entry
\* differs from the state before the call, and a business-validation failure
\* is raised before any transfer is issued.
C9_AllOrNothing ==
    [][(calls' # calls /\ last'.err # "Ok")
        => /\ tokens' = tokens /\ positions' = positions
           /\ log' = log /\ transfers' = transfers
           /\ (last'.err \in {"InvalidAmount", "DestinationOwnerMismatch", "SameAccount"}
                  => last'.issued = 0)]_vars

\* a deposit that failed on its arithmetic after its transfer was issued
C9_Witness ==
    /\ last.op = "deposit" /\ last.err = "Panic" /\ last.issued = 1
    /\ last.amount # ZERO /\ BLe(last.amount, tokens[last.src].amount)


\* the positions of mint m held by the owners in S, converted to native units
\* (amount / 10^12) and summed
RECURSIVE NativeClaims(_, _)
NativeClaims(S, m) ==
    IF S = {} THEN ZERO
    ELSE LET o == CHOOSE x \in S : TRUE
         IN  BAdd(BShr(positions[PosAddr(o, m)].amount, 3),
                  NativeClaims(S \ {o}, m))

\* C2: vault solvency: in every state reachable by deposits and withdrawals of
\* any owners, the clock advancing between calls, the pooled vault token
\* account of a mint holds at least the sum of the positions' amounts of that
\* mint converted to native units.
C2_Solvent ==
    \A m \in Mints :
        tokens[Pool(m)].open => BLe(NativeClaims(Users, m), tokens[Pool(m)].amount)

\* the reference value of C10 in unbounded arithmetic:
\* amount + floor(amount * 4 * max(now - start, 0) / (100 * 31_536_000))
ReferenceProduct(amount, start, now) ==
    LET d == ISub(now, start)
    IN  BMul(BMul(amount, Big(4)), IF d.neg THEN ZERO ELSE d.mag)

Reference(amount, start, now) ==
    BAdd(amount, BDiv(ReferenceProduct(amount, start, now),
                      BMul(Big(100), Big(31536000))))

\* a <= b for signed values
ILe(a, b) == ~ISub(b, a).neg

\* the inputs on which neither i64 nor u128 arithmetic overflows or saturates
Representable(amount, start, now) ==
    /\ InI64(ISub(now, start))
    /\ BLe(ReferenceProduct(amount, start, now), U128_MAX)
    /\ BLe(Reference(amount, start, now), U128_MAX)

LastAccrued == last.op = "accrued"

DepositThenWithdraw ==
    /\ last.op = "deposit" /\ last.err = "Ok" /\ last.balance = ZERO
    /\ positions[last.pos].last_ts = clock
    /\ CallOf("vault_withdraw") /\ last'.pos = last.pos

\* C11: vault round trip: for X > 0 deposited into a zero position at t0 and
\* withdrawn at t0, the withdraw from the pool the deposit went to succeeds,
\* transfers T with X - 1 < T <= X out of the pool to the owner and leaves the
\* position's amount exactly 0.
C11_RoundTrip ==
    [][DepositThenWithdraw
        => LET X == last.amount
               T == last'.ret
           IN  /\ (last'.src = last.dst => last'.err = "Ok")
               /\ (last'.err = "Ok"
                     => /\ BLe(T, X) /\ BLt(X, BAdd(T, <<1>>))
                        /\ positions'[last'.pos].amount = ZERO
                        /\ tokens'[last'.dst].amount = BAdd(tokens[last'.dst].amount, T)
                        /\ BAdd(tokens'[last'.src].amount, T) = tokens[last'.src].amount)]_vars

\* a deposit of DepositUnit and its withdrawal at the same clock reading
C11_Witness ==
    /\ last.op = "vault_withdraw" /\ last.err = "Ok" /\ calls = 2
    /\ Len(transfers) = 2
    /\ transfers[1].op = "deposit" /\ transfers[1].amount = Big(DepositUnit)
    /\ transfers[2].op = "vault_withdraw" /\ transfers[2].amount = Big(DepositUnit)
    /\ transfers[2].from = transfers[1].to
    /\ clock = I64(FALSE, Big(GenesisTime))
    /\ positions[last.pos].amount = ZERO


\* the total a vault call computes from the position it was given, read in
\* the state before the call
TotalBefore == accrued(positions[last'.pos].amount, positions[last'.pos].last_ts, clock)

\* a successful vault withdraw empties the position and stamps it
PositionEmptied ==
    /\ positions'[last'.pos] = [positions[last'.pos] EXCEPT
                                   !.amount = ZERO, !.last_ts = clock]
    /\ \A p \in PosAddrs \ {last'.pos} : positions'[p] = positions[p]

\* C12: vault withdraw fails with InvalidAmount, position and pool unchanged,
\* when the accrued total is zero; otherwise it transfers exactly
\* floor(total / 10^12) native units from the pool to the destination account,
\* so that less than one native unit is lost to rounding, and sets the
\* position's amount to 0 and its last_ts to the clock reading.
C12_WithdrawPaysFloor ==
    [][CallOf("vault_withdraw")
        => LET total == TotalBefore
               paid == BShr(total.val, 3)
           IN  /\ ((~total.panic /\ total.val = ZERO)
                     => /\ last'.err = "InvalidAmount"
                        /\ positions' = positions /\ tokens' = tokens)
               /\ (last'.err = "Ok"
                     => /\ ~total.panic /\ total.val # ZERO
                        /\ tokens'[last'.dst].amount = BAdd(tokens[last'.dst].amount, paid)
                        /\ BAdd(tokens'[last'.src].amount, paid) = tokens[last'.src].amount
                        /\ OthersUntouched(last'.src, last'.dst)
                        /\ BLt(BSub(total.val, BMul(paid, DECIMALS_SHIFT)), DECIMALS_SHIFT)
                        /\ PositionEmptied)]_vars


\* C13: deposit(amount) with amount > 0 moves exactly `amount` native units
\* from the owner's source account into the pool and sets position.amount to
\* accrued(old amount, old last_ts, now) + amount * 10^12, last_ts to now and
\* owner to the signer (the owner it already had on a repeat deposit); with
\* amount = 0 it fails with InvalidAmount.
C13_Deposit ==
    [][CallOf("deposit")
        => LET old == positions[last'.pos]
               cur == accrued(old.amount, old.last_ts, clock)
           IN  /\ (last'.amount = ZERO => last'.err = "InvalidAmount")
               /\ (last'.err = "Ok"
                     => /\ last'.amount # ZERO /\ ~cur.panic
                        /\ BAdd(tokens'[last'.src].amount, last'.amount)
                             = tokens[last'.src].amount
                        /\ tokens'[last'.dst].amount
                             = BAdd(tokens[last'.dst].amount, last'.amount)
                        /\ OthersUntouched(last'.src, last'.dst)
                        /\ positions'[last'.pos].amount
                             = BAdd(cur.val, BMul(last'.amount, <<0, 0, 0, 1>>))
                        /\ positions'[last'.pos].last_ts = clock
                        /\ positions'[last'.pos].owner = last'.signer
                        /\ (old.init => positions'[last'.pos].owner = old.owner)
                        /\ \A p \in PosAddrs \ {last'.pos} :
                              positions'[p] = positions[p])]_vars

\* a repeat deposit that folded the interest earned since the first into the
\* position
C13_Witness ==
    /\ last.op = "deposit" /\ last.err = "Ok" /\ last.balance # ZERO
    /\ positions[last.pos].last_ts = clock
    /\ positions[last.pos].owner = last.signer
    /\ BLt(BAdd(last.balance, BMul(last.amount, DECIMALS_SHIFT)),
           positions[last.pos].amount)


\* the operations that write a position
PositionWriters == {"deposit", "vault_withdraw", "admin_patch_timestamp"}

\* C14: a position's amount never decreases except in a successful vault
\* withdraw, which sets it to exactly 0; only deposit, withdraw and
\* admin_patch_timestamp change a field of a position, and
\* admin_patch_timestamp changes only last_ts, and only of a position whose
\* owner signed.
C14_PositionWrites ==
    [][\A p \in PosAddrs :
          /\ BLt(positions'[p].amount, positions[p].amount)
               => /\ CallOf("vault_withdraw") /\ last'.err = "Ok" /\ last'.pos = p
                  /\ positions'[p].amount = ZERO
          /\ positions'[p] # positions[p]
               => /\ calls' # calls /\ last'.op \in PositionWriters
                  /\ last'.err = "Ok" /\ last'.pos = p
          /\ (positions'[p] # positions[p] /\ last'.op = "admin_patch_timestamp")
               => /\ positions'[p] = [positions[p] EXCEPT !.last_ts = last'.ts]
                  /\ last'.signer = positions[p].owner]_vars

\* a patch that moved last_ts of a funded position and nothing else
C14_Witness ==
    /\ last.op = "admin_patch_timestamp" /\ last.err = "Ok"
    /\ positions[last.pos].last_ts = last.ts /\ last.ts # clock
    /\ positions[last.pos].amount = last.balance /\ last.balance # ZERO
    /\ positions[last.pos].owner = last.signer


\* a successful get_balance, then a successful vault withdraw of the same
\* position at the same clock reading
BalanceThenWithdraw ==
    /\ last.op = "get_balance" /\ last.err = "Ok"
    /\ CallOf("vault_withdraw") /\ last'.err = "Ok"
    /\ last'.pos = last.pos /\ last'.now = last.now

\* C15: get_balance returns accrued(position.amount, position.last_ts, now)
\* and leaves the position, the pool and every token balance unchanged, so
\* that a subsequent withdraw at the same clock reading pays out
\* floor(returned value / 10^12).
C15_GetBalance ==
    [][/\ (CallOf("get_balance") /\ last'.err = "Ok")
            => /\ ~TotalBefore.panic /\ last'.ret = TotalBefore.val
               /\ positions' = positions /\ tokens' = tokens
               /\ log' = log /\ transfers' = transfers
       /\ BalanceThenWithdraw
            => tokens'[last'.dst].amount
                 = BAdd(tokens[last'.dst].amount, BShr(last.ret, 3))]_vars


\* the PaymentEvents of payments, and the transfers pay committed, in order
PaidEvents == SelectSeq(log, LAMBDA e : e.type = "PaymentEvent" /\ ~e.announce)
PayTransfers == SelectSeq(transfers, LAMBDA x : x.op = "pay")
Announcements == SelectSeq(log, LAMBDA e : e.type = "PaymentEvent" /\ e.announce)

\* every announce = false event stands for one transfer of its amount into
\* the receiver account of its stealth_owner and mint; the announce = true
\* events stand for none
EventsMatchTransfers ==
    /\ Len(PaidEvents) = Len(PayTransfers)
    /\ \A i \in 1 .. Len(PaidEvents) :
          /\ PayTransfers[i].amount = PaidEvents[i].amount
          /\ PayTransfers[i].to = Ata(PaidEvents[i].stealth_owner, PaidEvents[i].mint)
    /\ Len(transfers) + Len(Announcements) = Len(log)

\* C16: announce never moves value: announce(0) fails with InvalidAmount and
\* emits nothing; announce of an amount > 0 emits exactly one PaymentEvent
\* with announce = true carrying the given stealth_owner, signer, mint,
\* amount, label and eph_pubkey and leaves every token balance and account
\* unchanged; so every announce = false PaymentEvent in the log corresponds to
\* a transfer of exactly its amount into the receiver account, and no
\* announce = true event does.
C16_Announce ==
    [][/\ CallOf("announce")
            => /\ tokens' = tokens /\ positions' = positions
               /\ transfers' = transfers
               /\ (last'.amount = ZERO
                     => last'.err = "InvalidAmount" /\ log' = log)
               /\ (last'.amount # ZERO
                     => /\ last'.err = "Ok" /\ OneEmitted
                        /\ \E label \in Labels, eph_pubkey \in EphKeys :
                              Emitted = PaymentEvent(last'.owner, last'.signer,
                                            last'.mint, last'.amount, label,
                                            eph_pubkey, TRUE))
       /\ EventsMatchTransfers']_vars

\* an announcement logged after a payment: two events, one transfer
C16_Witness ==
    /\ last.op = "announce" /\ last.err = "Ok" /\ last.amount # ZERO
    /\ Len(log) = 2 /\ Len(transfers) = 1
    /\ ~log[1].announce /\ log[2].announce /\ log[2].amount = last.amount
    /\ transfers[1].op = "pay" /\ transfers[1].amount = log[1].amount


\* C17: after a successful stealth withdraw the receiver token account is
\* closed if and only if its balance re-read after the transfer is zero: a
\* withdrawal of less than the balance leaves it open with the balance
\* reduced by exactly the withdrawn amount, a withdrawal of the full balance
\* (explicit or u64::MAX) closes it, and the close is never attempted on a
\* non-zero balance.
C17_ClosedIffEmpty ==
    [][CallOf("withdraw")
        => LET src == last'.src
               pre == tokens[src].amount
               amt == last'.ret
           IN  /\ (last'.err = "Ok"
                     => /\ BLe(amt, pre)
                        /\ (~tokens'[src].open <=> BSub(pre, amt) = ZERO)
                        /\ tokens'[src].amount = BSub(pre, amt)
                        /\ (BLt(amt, pre) => tokens'[src].open /\ last'.issued = 1)
                        /\ (amt = pre => ~tokens'[src].open /\ last'.issued = 2))
               /\ (last'.issued = 2 => last'.err = "Ok")]_vars

\* a withdrawal of part of the balance: the account stays open with the rest
C17_Witness ==
    /\ LastWithdraw /\ last.err = "Ok" /\ last.issued = 1
    /\ BLt(last.ret, last.balance)
    /\ tokens[last.src].open
    /\ tokens[last.src].amount = BSub(last.balance, last.ret)


\* accrued in unbounded arithmetic but for the product, which saturates at
\* u128::MAX as the code's saturating_mul does
ExactAccrued(amount, start, now) ==
    LET d == ISub(now, start)
        dt == IF d.neg THEN ZERO ELSE d.mag
        product == SaturatingMul(SaturatingMul(amount, Big(4)), dt)
    IN  BAdd(amount, BDiv(product, BMul(Big(100), Big(31536000))))

VaultArithmetic == {"deposit", "vault_withdraw", "get_balance"}

\* C18: the vault arithmetic never overflows or truncates for any reachable
\* position and clock reading (last_ts values set by admin_patch_timestamp
\* included): no call fails on its arithmetic, get_balance returns the exact
\* (or saturated) accrued value, withdraw pays that value / 10^12 untruncated
\* and deposit stores that value plus amount * 10^12.
C18_ExactArithmetic ==
    [][(calls' # calls /\ last'.op \in VaultArithmetic)
        => LET old == positions[last'.pos]
               exact == ExactAccrued(old.amount, old.last_ts, clock)
           IN  /\ last'.err # "Panic"
               /\ (last'.err = "Ok" /\ last'.op = "get_balance")
                    => last'.ret = exact
               /\ (last'.err = "Ok" /\ last'.op = "vault_withdraw")
                    => last'.ret = BShr(exact, 3)
               /\ (last'.err = "Ok" /\ last'.op = "deposit")
                    => positions'[last'.pos].amount
                         = BAdd(exact, BMul(last'.amount, <<0, 0, 0, 1>>))]_vars


\* the vault calls that read a position through the Withdraw accounts
PositionReaders == {"vault_withdraw", "get_balance"}

\* C19: a vault withdraw or get_balance against the pool of mint M succeeds
\* only with the position created by deposits of mint M by the same owner: a
\* position funded in another mint cannot draw on the pool of M.
C19_PositionOfMint ==
    (last.op \in PositionReaders /\ last.err = "Ok")
    => last.pos = PosAddr(last.signer, tokens[last.src].mint)


\* the sum of the balances the token accounts in S hold in tk
RECURSIVE SumBalances(_, _)
SumBalances(tk, S) ==
    IF S = {} THEN ZERO
    ELSE LET t == CHOOSE x \in S : TRUE
         IN  BAdd(tk[t].amount, SumBalances(tk, S \ {t}))

\* the tokens of mint m held in token accounts of any kind
Supply(tk, m) == SumBalances(tk, {t \in TokenAddrs : tk[t].mint = m})

\* C20: token conservation: no call of either program creates or destroys
\* tokens: for each mint the sum of the balances of all token accounts is the
\* same after every call as before it, and a token account is closed only by
\* the stealth withdraw that moved everything it held out of it.
C20_Conservation ==
    [][/\ \A m \in Mints : Supply(tokens', m) = Supply(tokens, m)
       /\ \A t \in TokenAddrs :
             (tokens[t].open /\ ~tokens'[t].open)
             => /\ CallOf("withdraw") /\ last'.src = t
                /\ last'.ret = tokens[t].amount
                /\ tokens'[t].amount = ZERO]_vars

\* a payment, its sweep (closing the receiver account) and a vault deposit,
\* with the supply of the mint where it was
C20_Witness ==
    /\ last.op = "deposit" /\ last.err = "Ok"
    /\ Len(transfers) = 3
    /\ transfers[1].op = "pay" /\ transfers[2].op = "withdraw"
    /\ transfers[2].from = transfers[1].to
    /\ ~tokens[transfers[2].from].open
    /\ tokens[Pool("m1")].amount = last.amount
    /\ Supply(tokens, "m1") = Big(InitBalance)

====
